---- MODULE Spec2Model ----
(***************************************************************************)
(* A model of the compressed sparse matrix CsMat of src/sparse/csmat.rs:   *)
(* construction with structural validation, point lookup, and the          *)
(* double-ended outer iterator.                                            *)
(*                                                                         *)
(* Rust slices are 0-based, TLA+ sequences are 1-based: element k of a     *)
(* slice s is s[k + 1].  A panic (failed assert!, unwrap on None, slice    *)
(* index out of range) is the outcome "panic" of the operator that models  *)
(* the panicking code, and the state "aborted" of the program.             *)
(***************************************************************************)
EXTENDS Integers, Sequences, FiniteSets, TLC

\* Largest number of rows or columns of an input.
MaxDim == 2
\* Largest length of the input indices and data arrays.
MaxNnz == 2

VARIABLES
    pc,      \* "start", "built" (Some(m)), "rejected" (None), "aborted" (panic)
    args,    \* the arguments from_slices / from_vecs was called with
    m,       \* the CsMat built by from_slices (the candidate, when not built)
    stdout,  \* the lines println! has written
    its,     \* the OuterIterator borrowed from m: <<>> or <<iterator>>
    parg,    \* the permutation the iterator was asked for: <<>> or <<perm>>
    log,     \* the items the iterator has yielded, in the order of the calls
    ret      \* the last call of at: <<>> or <<[i, j, tag, val]>>

vars == <<pc, args, m, stdout, its, parg, log, ret>>

\* ------------------------------------------------------------------ slices

\* &s[a..b] is in range
SliceOk(s, a, b) == a <= b /\ b <= Len(s)

\* &s[a..b]
Slice(s, a, b) == SubSeq(s, a + 1, b)

RECURSIVE SeqMax(_)
\* s.iter().max() of a non-empty s
SeqMax(s) ==
    IF Len(s) = 1 THEN s[1]
    ELSE LET t == SeqMax(Tail(s)) IN IF s[1] > t THEN s[1] ELSE t

\* s.iter().max(): None on an empty slice
iter_max(s) ==
    IF s = <<>> THEN [tag |-> "None", val |-> 0]
    ELSE [tag |-> "Some", val |-> SeqMax(s)]

\* s.windows(2).all(|x| x[0] <= x[1])
windows_all_le(s) == \A k \in 1..(Len(s) - 1) : s[k] <= s[k + 1]

\* ------------------------------------------------------------ Permutation

\* Permutation::identity()
perm_identity == [identity |-> TRUE, perm |-> <<>>]

\* a finite permutation given by its image array
FinitePerm(p) == [identity |-> FALSE, perm |-> p]

\* perm.at(index) can be evaluated without panic
perm_at_ok(p, index) == p.identity \/ index < Len(p.perm)

\* perm.at(index)
perm_at(p, index) == IF p.identity THEN index ELSE p.perm[index + 1]

\* Permutation::inv(perm)
perm_inv(p) ==
    IF p.identity THEN p
    ELSE [identity |-> FALSE,
          perm |-> [i \in 1..Len(p.perm) |->
                      (CHOOSE j \in 1..Len(p.perm) : p.perm[j] = i - 1) - 1]]

\* perm.borrowed()
perm_borrowed(p) == p

\* ------------------------------------------------------------------ CsVec

\* CsVec::new_borrowed(indices, data, perm)
new_borrowed(indices, data, perm) ==
    [indices |-> indices, data |-> data, perm |-> perm]

\* vec.check_structure(): the indices are strictly ascending
check_structure(vec) ==
    \A k \in 1..(Len(vec.indices) - 1) : vec.indices[k] < vec.indices[k + 1]

\* ---------------------------------------------- Windows<usize>, Enumerate

\* slice.windows(2): the remaining slice v; the window size is 2
windows(s) == [v |-> s]

\* Windows::len(): the number of windows of size 2 left in v
windows_len(w) == IF 2 > Len(w.v) THEN 0 ELSE Len(w.v) - 2 + 1

\* Windows::next(): the first two elements; v loses its first element
windows_next(w) ==
    IF 2 > Len(w.v) THEN [tag |-> "None", win |-> <<>>, iter |-> w]
    ELSE [tag |-> "Some", win |-> SubSeq(w.v, 1, 2), iter |-> [v |-> Tail(w.v)]]

\* Windows::next_back(): the last two elements; v loses its last element
windows_next_back(w) ==
    IF 2 > Len(w.v) THEN [tag |-> "None", win |-> <<>>, iter |-> w]
    ELSE [tag |-> "Some", win |-> SubSeq(w.v, Len(w.v) - 1, Len(w.v)),
          iter |-> [v |-> SubSeq(w.v, 1, Len(w.v) - 1)]]

\* iter.enumerate(): the inner iterator and the count of items taken in front
enumerate(w) == [iter |-> w, count |-> 0]

\* Enumerate::len()
enumerate_len(e) == windows_len(e.iter)

\* Enumerate::next(): (count, item), then count += 1
enumerate_next(e) ==
    LET a == windows_next(e.iter) IN
    IF a.tag = "None" THEN [tag |-> "None", ind |-> 0, win |-> <<>>, iter |-> e]
    ELSE [tag |-> "Some", ind |-> e.count, win |-> a.win,
          iter |-> [iter |-> a.iter, count |-> e.count + 1]]

\* Enumerate::next_back(): (count + len, item), len taken after the step
enumerate_next_back(e) ==
    LET a == windows_next_back(e.iter) IN
    IF a.tag = "None" THEN [tag |-> "None", ind |-> 0, win |-> <<>>, iter |-> e]
    ELSE [tag |-> "Some", ind |-> e.count + windows_len(a.iter), win |-> a.win,
          iter |-> [iter |-> a.iter, count |-> e.count]]

\* ---------------------------------------------------------- OuterIterator

\* the view of an item that carries none
NoVec == new_borrowed(<<>>, <<>>, perm_identity)

\* the Some arm with inner_end read from window[0], as inner_start is
yield_item_empty(it, outer_ind, window) ==
    LET inner_start == window[1]
        inner_end == window[1]
    IN  IF ~perm_at_ok(it.perm, outer_ind)
           \/ ~SliceOk(it.indices, inner_start, inner_end)
           \/ ~SliceOk(it.data, inner_start, inner_end)
        THEN [tag |-> "panic", idx |-> 0, vec |-> NoVec]
        ELSE [tag |-> "Some", idx |-> perm_at(it.perm, outer_ind),
              vec |-> new_borrowed(Slice(it.indices, inner_start, inner_end),
                                   Slice(it.data, inner_start, inner_end),
                                   perm_borrowed(it.perm))]

\* The Some((outer_ind, window)) arm of next and next_back: the permuted
\* outer index and the CsVec over indices[start..end], data[start..end].
yield_item(it, outer_ind, window) ==
    LET inner_start == window[1]
        inner_end == window[2]
    IN  IF ~perm_at_ok(it.perm, outer_ind)
           \/ ~SliceOk(it.indices, inner_start, inner_end)
           \/ ~SliceOk(it.data, inner_start, inner_end)
        THEN [tag |-> "panic", idx |-> 0, vec |-> NoVec]
        ELSE [tag |-> "Some", idx |-> perm_at(it.perm, outer_ind),
              vec |-> new_borrowed(Slice(it.indices, inner_start, inner_end),
                                   Slice(it.data, inner_start, inner_end),
                                   perm_borrowed(it.perm))]

\* OuterIterator::next(): the item and the iterator after the call
next(it) ==
    LET e == enumerate_next(it.indptr_iter) IN
    IF e.tag = "None"
    THEN [item |-> [tag |-> "None", idx |-> 0, vec |-> NoVec], it |-> it]
    ELSE [item |-> yield_item(it, e.ind, e.win),
          it |-> [it EXCEPT !.indptr_iter = e.iter]]

\* next_back() that takes its window from the front, as next() does
next_back_from_front(it) == next(it)

\* OuterIterator::next_back(): the item and the iterator after the call
next_back(it) ==
    LET e == enumerate_next_back(it.indptr_iter) IN
    IF e.tag = "None"
    THEN [item |-> [tag |-> "None", idx |-> 0, vec |-> NoVec], it |-> it]
    ELSE [item |-> yield_item(it, e.ind, e.win),
          it |-> [it EXCEPT !.indptr_iter = e.iter]]

\* OuterIterator::size_hint()
size_hint(it) == <<enumerate_len(it.indptr_iter), enumerate_len(it.indptr_iter)>>

\* len() that counts the offsets left, not the windows
len_offsets(it) == Len(it.indptr_iter.iter.v)

\* ExactSizeIterator::len()
len(it) == enumerate_len(it.indptr_iter)

\* ------------------------------------------------------------------ CsMat

\* the CsMat struct literal of from_slices / from_vecs
CsMat(storage, nrows, ncols, indptr, indices, data) ==
    [storage |-> storage, nrows |-> nrows, ncols |-> ncols, nnz |-> Len(data),
     indptr |-> indptr, indices |-> indices, data |-> data,
     perm_identity |-> perm_identity]

\* the permutation applied as given, whatever the storage
oriented_perm_direct(mat, perm) == perm_borrowed(perm)

\* the permutation the iterator applies: perm for CSR, its inverse for CSC
oriented_perm(mat, perm) ==
    IF mat.storage = "CSR" THEN perm_borrowed(perm) ELSE perm_inv(perm)

\* CsMat::outer_iterator_papt(perm)
outer_iterator_papt(mat, perm) ==
    [indptr_iter |-> enumerate(windows(mat.indptr)),
     indices |-> mat.indices,
     data |-> mat.data,
     perm |-> oriented_perm(mat, perm)]

\* CsMat::outer_iterator()
outer_iterator(mat) == outer_iterator_papt(mat, mat.perm_identity)

\* CsMat::storage_type()
storage_type(mat) == mat.storage

\* CsMat::rows()
rows(mat) == mat.nrows

\* CsMat::cols()
cols(mat) == mat.ncols

RECURSIVE iter_all_check_structure(_)
\* it.all(|(_, vec)| vec.check_structure()): "true", "false" or "panic"
iter_all_check_structure(it) ==
    LET r == next(it) IN
    IF r.item.tag = "None" THEN "true"
    ELSE IF r.item.tag = "panic" THEN "panic"
    ELSE IF ~check_structure(r.item.vec) THEN "false"
    ELSE iter_all_check_structure(r.it)

\* the outcomes of check_compressed_structure
CheckNone(msg) == [tag |-> "None", val |-> 0, out |-> <<msg>>]
CheckPanic == [tag |-> "panic", val |-> 0, out |-> <<>>]
CheckSome(nnz) == [tag |-> "Some", val |-> nnz, out |-> <<>>]

\* inner_dim with the two storages exchanged
inner_dim_swapped(mat) == IF mat.storage = "CSR" THEN mat.nrows ELSE mat.ncols

\* the inner dimension check_compressed_structure computes
inner_dim(mat) == IF mat.storage = "CSR" THEN mat.ncols ELSE mat.nrows

\* the outer dimension check_compressed_structure computes
outer_dim(mat) == IF mat.storage = "CSR" THEN mat.nrows ELSE mat.ncols

\* check_compressed_structure with the ordering check of indptr moved
\* before the bound check of indices
check_compressed_structure_reordered(mat) ==
    LET inner == inner_dim(mat)
        outer == outer_dim(mat)
        nnz == Len(mat.indices)
    IN  IF Len(mat.indptr) # outer + 1
        THEN CheckNone("CsMat indptr length incorrect")
        ELSE IF Len(mat.indices) # Len(mat.data)
        THEN CheckNone("CsMat indices/data length incorrect")
        ELSE IF nnz # mat.nnz
        THEN CheckNone("CsMat nnz count incorrect")
        ELSE IF iter_max(mat.indptr).tag = "None"
        THEN CheckPanic
        ELSE IF iter_max(mat.indptr).val > nnz
        THEN CheckNone("CsMat indptr values incoherent with nnz")
        ELSE IF ~windows_all_le(mat.indptr)
        THEN CheckNone("CsMat indptr not sorted")
        ELSE IF iter_max(mat.indices).tag = "None"
        THEN CheckPanic
        ELSE IF iter_max(mat.indices).val >= inner
        THEN CheckNone("CsMat indices values incoherent with ncols")
        ELSE LET sorted == iter_all_check_structure(outer_iterator(mat)) IN
             IF sorted = "panic" THEN CheckPanic
             ELSE IF sorted = "false"
             THEN CheckNone("CsMat indices not sorted for each outer ind")
             ELSE CheckSome(nnz)

\* CsMat::check_compressed_structure(): Some(nnz), None with the line
\* printed, or a panic
check_compressed_structure(mat) ==
    LET inner == inner_dim(mat)
        outer == outer_dim(mat)
        nnz == Len(mat.indices)
    IN  IF Len(mat.indptr) # outer + 1
        THEN CheckNone("CsMat indptr length incorrect")
        ELSE IF Len(mat.indices) # Len(mat.data)
        THEN CheckNone("CsMat indices/data length incorrect")
        ELSE IF nnz # mat.nnz
        THEN CheckNone("CsMat nnz count incorrect")
        ELSE IF iter_max(mat.indptr).tag = "None"
        THEN CheckPanic
        ELSE IF iter_max(mat.indptr).val > nnz
        THEN CheckNone("CsMat indptr values incoherent with nnz")
        ELSE IF iter_max(mat.indices).tag = "None"
        THEN CheckPanic
        ELSE IF iter_max(mat.indices).val >= inner
        THEN CheckNone("CsMat indices values incoherent with ncols")
        ELSE IF ~windows_all_le(mat.indptr)
        THEN CheckNone("CsMat indptr not sorted")
        ELSE LET sorted == iter_all_check_structure(outer_iterator(mat)) IN
             IF sorted = "panic" THEN CheckPanic
             ELSE IF sorted = "false"
             THEN CheckNone("CsMat indices not sorted for each outer ind")
             ELSE CheckSome(nnz)

RECURSIVE binary_search_from(_, _, _, _)
\* the loop of slice::binary_search from (base, lim): Ok(ix) or Err(base)
binary_search_from(s, x, base, lim) ==
    IF lim = 0 THEN [tag |-> "Err", val |-> base]
    ELSE LET ix == base + (lim \div 2) IN
         IF s[ix + 1] = x THEN [tag |-> "Ok", val |-> ix]
         ELSE IF s[ix + 1] < x
         THEN binary_search_from(s, x, ix + 1, (lim - 1) \div 2)
         ELSE binary_search_from(s, x, base, lim \div 2)

\* indices.binary_search(&x)
binary_search(s, x) == binary_search_from(s, x, 0, Len(s))

\* the outcomes of at and at_outer_inner
AtNone == [tag |-> "None", val |-> 0]
AtPanic == [tag |-> "panic", val |-> 0]
AtSome(x) == [tag |-> "Some", val |-> x]

\* CsMat::at_outer_inner(&(outer_ind, inner_ind))
at_outer_inner(mat, outer_ind, inner_ind) ==
    IF outer_ind + 1 >= Len(mat.indptr) THEN AtPanic
    ELSE LET begin == mat.indptr[outer_ind + 1]
             end == mat.indptr[outer_ind + 2]
         IN  IF begin >= end THEN AtNone
             ELSE IF ~SliceOk(mat.indices, begin, end)
                     \/ ~SliceOk(mat.data, begin, end)
             THEN AtPanic
             ELSE LET indices == Slice(mat.indices, begin, end)
                      data == Slice(mat.data, begin, end)
                      position == binary_search(indices, inner_ind)
                  IN  IF position.tag = "Ok"
                      THEN AtSome(data[position.val + 1])
                      ELSE AtNone

\* at() that looks up (i, j) as (outer, inner) whatever the storage
at_no_swap(mat, i, j) ==
    IF ~(i < mat.nrows) THEN AtPanic
    ELSE IF ~(j < mat.ncols) THEN AtPanic
    ELSE at_outer_inner(mat, i, j)

\* at() without the assertion on the column
at_no_col_assert(mat, i, j) ==
    IF ~(i < mat.nrows) THEN AtPanic
    ELSE IF mat.storage = "CSR" THEN at_outer_inner(mat, i, j)
    ELSE at_outer_inner(mat, j, i)

\* CsMat::at(&(i, j))
at(mat, i, j) ==
    IF ~(i < mat.nrows) THEN AtPanic
    ELSE IF ~(j < mat.ncols) THEN AtPanic
    ELSE IF mat.storage = "CSR" THEN at_outer_inner(mat, i, j)
    ELSE at_outer_inner(mat, j, i)

\* ------------------------------------------------------------ the inputs

\* the sequences over S of length at most n
SeqsUpTo(S, n) == UNION {[1..k -> S] : k \in 0..n}

\* The data arrays: the element type N is opaque to CsMat (it is only
\* cloned), so each position carries a value of its own.
DataOfLen(n) == [k \in 1..n |-> 10 + k]

\* The arguments of from_slices / from_vecs. The offsets of indptr reach
\* MaxNnz and the inner indices MaxDim - 1: they exceed nnz, or the inner
\* dimension, of every input that is shorter, or narrower, than the largest.
Storages == {"CSR", "CSC"}
Dims == 0..MaxDim
IndptrInputs == SeqsUpTo(0..MaxNnz, MaxDim + 1)
IndicesInputs == SeqsUpTo(0..(MaxDim - 1), MaxNnz)
DataInputs == {DataOfLen(n) : n \in 0..MaxNnz}

\* the permutations of 0..n-1, as image arrays
PermArrays(n) ==
    {p \in [1..n -> 0..(n - 1)] : \A i, j \in 1..n : p[i] = p[j] => i = j}

\* the rotations of 0..n-1, as image arrays
Rotations(n) == {[k \in 1..n |-> (k - 1 + r) % n] : r \in 0..(n - 1)}

\* The permutations handed to outer_iterator_papt for a matrix of outer
\* dimension n: every permutation of 0..n-1, and the rotations of a larger
\* index set (outer_iterator_papt takes any permutation; at(k) is only asked
\* for k < n).
PermInputs(n) == PermArrays(n) \cup Rotations(MaxDim + 1)

\* no matrix: before construction, and after a construction that failed
NoMat == CsMat("none", 0, 0, <<>>, <<>>, <<>>)

\* ------------------------------------------------------------ the actions

Init ==
    /\ pc = "start"
    /\ args = NoMat
    /\ m = NoMat
    /\ stdout = <<>>
    /\ its = <<>>
    /\ parg = <<>>
    /\ log = <<>>
    /\ ret = <<>>

\* The body shared by from_slices and from_vecs: build m, validate it, and
\* return Some(m) or None.
construct(storage, nrows, ncols, indptr, indices, data) ==
    LET mat == CsMat(storage, nrows, ncols, indptr, indices, data)
        r == check_compressed_structure(mat)
    IN  /\ args' = mat
        /\ stdout' = stdout \o r.out
        /\ pc' = IF r.tag = "Some" THEN "built"
                 ELSE IF r.tag = "None" THEN "rejected" ELSE "aborted"
        /\ m' = IF r.tag = "Some" THEN mat ELSE NoMat
        /\ UNCHANGED <<its, parg, log, ret>>

\* CsMat::from_slices(storage, nrows, ncols, indptr, indices, data)
from_slices ==
    /\ pc = "start"
    /\ \E storage \in Storages, nrows \in Dims, ncols \in Dims,
          indptr \in IndptrInputs, indices \in IndicesInputs, data \in DataInputs :
           construct(storage, nrows, ncols, indptr, indices, data)

\* CsMat::from_vecs(storage, nrows, ncols, indptr, indices, data)
from_vecs ==
    /\ pc = "start"
    /\ \E storage \in Storages, nrows \in Dims, ncols \in Dims,
          indptr \in IndptrInputs, indices \in IndicesInputs, data \in DataInputs :
           construct(storage, nrows, ncols, indptr, indices, data)

\* let it = m.outer_iterator()
OuterIterator ==
    /\ pc = "built"
    /\ its = <<>>
    /\ its' = <<outer_iterator(m)>>
    /\ parg' = <<m.perm_identity>>
    /\ UNCHANGED <<pc, args, m, stdout, log, ret>>

\* let it = m.outer_iterator_papt(&p)
OuterIteratorPapt ==
    /\ pc = "built"
    /\ its = <<>>
    /\ \E p \in PermInputs(IF m.storage = "CSR" THEN m.nrows ELSE m.ncols) :
          /\ its' = <<outer_iterator_papt(m, FinitePerm(p))>>
          /\ parg' = <<FinitePerm(p)>>
    /\ UNCHANGED <<pc, args, m, stdout, log, ret>>

\* the effect of a call of next or next_back that returned r
Stepped(r, end) ==
    /\ its' = <<r.it>>
    /\ log' = IF r.item.tag = "Some"
              THEN Append(log, [end |-> end, idx |-> r.item.idx, vec |-> r.item.vec])
              ELSE log
    /\ pc' = IF r.item.tag = "panic" THEN "aborted" ELSE pc
    /\ UNCHANGED <<args, m, stdout, parg, ret>>

\* it.next()
Next_ ==
    /\ pc = "built"
    /\ its # <<>>
    /\ Stepped(next(its[1]), "front")

\* it.next_back()
NextBack ==
    /\ pc = "built"
    /\ its # <<>>
    /\ Stepped(next_back(its[1]), "back")

\* m.at(&(i, j)); the client looks entries up before it takes the iterator
At ==
    /\ pc = "built"
    /\ its = <<>>
    /\ \E i \in 0..MaxDim, j \in 0..MaxDim :
          LET r == at(m, i, j) IN
          /\ ret' = <<[i |-> i, j |-> j, tag |-> r.tag, val |-> r.val]>>
          /\ pc' = IF r.tag = "panic" THEN "aborted" ELSE pc
    /\ UNCHANGED <<args, m, stdout, its, parg, log>>

Next ==
    \/ from_slices
    \/ from_vecs
    \/ OuterIterator
    \/ OuterIteratorPapt
    \/ Next_
    \/ NextBack
    \/ At

Spec == Init /\ [][Next]_vars

\* ------------------------------------------------- the invariants (1)-(6)
\* Stated on the arguments of the construction, independently of the checks
\* of check_compressed_structure.

\* outer_dim = nrows for CSR, ncols for CSC
ArgOuter(a) == IF a.storage = "CSR" THEN a.nrows ELSE a.ncols

\* inner_dim = ncols for CSR, nrows for CSC
ArgInner(a) == IF a.storage = "CSR" THEN a.ncols ELSE a.nrows

\* (1) indptr.len() == outer_dim + 1
Inv1(a) == Len(a.indptr) = ArgOuter(a) + 1

\* (2) indices.len() == data.len() == nnz
Inv2(a) == Len(a.indices) = Len(a.data) /\ Len(a.data) = a.nnz

\* (3) max(indptr) <= nnz
Inv3(a) == \A k \in 1..Len(a.indptr) : a.indptr[k] <= Len(a.indices)

\* (4) max(indices) < inner_dim
Inv4(a) == \A k \in 1..Len(a.indices) : a.indices[k] < ArgInner(a)

\* (5) indptr is non-decreasing
Inv5(a) == \A k \in 1..(Len(a.indptr) - 1) : a.indptr[k] <= a.indptr[k + 1]

\* (6) every outer slice indices[indptr[k]..indptr[k+1]] is strictly ascending
Inv6(a) ==
    \A k \in 1..(Len(a.indptr) - 1) :
        \A x, y \in (a.indptr[k] + 1)..a.indptr[k + 1] :
            (x < y /\ y <= Len(a.indices)) => a.indices[x] < a.indices[y]

AllInv(a) == Inv1(a) /\ Inv2(a) /\ Inv3(a) /\ Inv4(a) /\ Inv5(a) /\ Inv6(a)

\* the lowest-numbered invariant the arguments violate, 0 when none
FirstViolated(a) ==
    IF ~Inv1(a) THEN 1
    ELSE IF ~Inv2(a) THEN 2
    ELSE IF ~Inv3(a) THEN 3
    ELSE IF ~Inv4(a) THEN 4
    ELSE IF ~Inv5(a) THEN 5
    ELSE IF ~Inv6(a) THEN 6
    ELSE 0

\* the lines that report a violation of invariant k
Diagnostics(k) ==
    IF k = 1 THEN {"CsMat indptr length incorrect"}
    ELSE IF k = 2 THEN {"CsMat indices/data length incorrect",
                        "CsMat nnz count incorrect"}
    ELSE IF k = 3 THEN {"CsMat indptr values incoherent with nnz"}
    ELSE IF k = 4 THEN {"CsMat indices values incoherent with ncols"}
    ELSE IF k = 5 THEN {"CsMat indptr not sorted"}
    ELSE IF k = 6 THEN {"CsMat indices not sorted for each outer ind"}
    ELSE {}

\* the construction panicked
ConstructionAborted == pc = "aborted" /\ m = NoMat

\* ----------------------------------------------------------------- claims

\* C1: construction soundness. Whenever from_slices / from_vecs returned a
\* matrix, its arguments satisfy the invariants (1)-(6) (so arguments that
\* violate one of them yield no matrix), and the matrix reports rows(),
\* cols() and storage_type() equal to the arguments.
C1_ConstructionSound ==
    pc = "built" =>
        /\ AllInv(args)
        /\ rows(m) = args.nrows
        /\ cols(m) = args.ncols
        /\ storage_type(m) = args.storage

\* a CSC matrix with two stored entries and more columns than rows was built
C1_Witness ==
    /\ pc = "built"
    /\ args.storage = "CSC"
    /\ args.nrows < args.ncols
    /\ Len(args.indices) = 2

\* C2 (as claimed): construction is total. It never aborts, and arguments
\* that satisfy the invariants (1)-(6) are accepted.
C2_ConstructionTotal ==
    /\ ~ConstructionAborted
    /\ (pc # "start" /\ AllInv(args)) => m # NoMat

\* C10: validator ordering and diagnostics. A rejection prints exactly one
\* line, the line of the lowest-numbered invariant the arguments violate;
\* the line of the per-slice sortedness scan is printed only when the
\* invariants (1)-(5) hold; an accepted matrix prints nothing.
C10_FirstViolationReported ==
    /\ pc = "rejected" =>
          /\ Len(stdout) = 1
          /\ FirstViolated(args) # 0
          /\ stdout[1] \in Diagnostics(FirstViolated(args))
          /\ stdout[1] \in Diagnostics(6) =>
                Inv1(args) /\ Inv2(args) /\ Inv3(args) /\ Inv4(args) /\ Inv5(args)
    /\ pc = "built" => stdout = <<>>

\* arguments that violate (4) and (5) and (6) at once were rejected
C10_Witness ==
    /\ pc = "rejected"
    /\ Inv1(args) /\ Inv2(args) /\ Inv3(args)
    /\ ~Inv4(args) /\ ~Inv5(args) /\ ~Inv6(args)

\* ------------------------------------------------------ lookup, C3 and C9

\* the positions of the outer slice of (i, j) that hold its inner index
StoredAt(mat, i, j) ==
    LET outer == IF mat.storage = "CSR" THEN i ELSE j
        inner == IF mat.storage = "CSR" THEN j ELSE i
    IN  {p \in mat.indptr[outer + 1]..(mat.indptr[outer + 2] - 1) :
            mat.indices[p + 1] = inner}

\* C3: lookup correctness. A call at(i, j) with i < nrows and j < ncols on a
\* constructed matrix does not abort; it returns data[p] when a position p
\* of the outer slice holds the inner index, and None when none does.
C3_LookupCorrect ==
    \A n \in 1..Len(ret) :
        LET r == ret[n] IN
        (r.i < m.nrows /\ r.j < m.ncols) =>
            /\ r.tag # "panic"
            /\ pc = "built"
            /\ \A p \in StoredAt(m, r.i, r.j) :
                  r.tag = "Some" /\ r.val = m.data[p + 1]
            /\ StoredAt(m, r.i, r.j) = {} => r.tag = "None"

\* a lookup in a CSC matrix, off the diagonal, returned the second stored value
C3_Witness ==
    /\ ret # <<>>
    /\ m.storage = "CSC"
    /\ ret[1].i # ret[1].j
    /\ ret[1].tag = "Some"
    /\ Len(m.data) = 2
    /\ ret[1].val = m.data[2]

\* C9: point-lookup precondition. A call at(i, j) with i >= nrows or
\* j >= ncols panics: it returns neither a value nor None, and the matrix is
\* still the one that was constructed.
C9_OutOfRangePanics ==
    \A n \in 1..Len(ret) :
        LET r == ret[n] IN
        (r.i >= m.nrows \/ r.j >= m.ncols) =>
            /\ r.tag = "panic"
            /\ pc = "aborted"
            /\ m = args

\* a lookup with a row in range and a column out of range panicked
C9_Witness ==
    /\ ret # <<>>
    /\ ret[1].i < m.nrows
    /\ ret[1].j >= m.ncols
    /\ ret[1].tag = "panic"

\* ------------------------------------------------------ iteration, C4-C8

\* the outer dimension of the constructed matrix
Outer == IF m.storage = "CSR" THEN m.nrows ELSE m.ncols

\* the number of the first n items of the log that came from the given end
CountEnd(end, n) == Cardinality({k \in 1..n : log[k].end = end})

\* The original outer position of the n-th item of the log: the items of
\* next() count up from 0, those of next_back() count down from Outer - 1.
PosOf(n) ==
    IF log[n].end = "front" THEN CountEnd("front", n) - 1
    ELSE Outer - CountEnd("back", n)

\* the item at outer position k has the view of the arrays between
\* indptr[k] and indptr[k+1]
ViewIs(vec, k) ==
    /\ vec.indices = SubSeq(m.indices, m.indptr[k + 1] + 1, m.indptr[k + 2])
    /\ vec.data = SubSeq(m.data, m.indptr[k + 1] + 1, m.indptr[k + 2])

\* the items of a log, without the end they came from
Items(l) == [n \in 1..Len(l) |-> [idx |-> l[n].idx, vec |-> l[n].vec]]

\* a sequence, reversed
Reverse(q) == [n \in 1..Len(q) |-> q[Len(q) + 1 - n]]

RECURSIVE collect(_)
\* the items of calling next() until it returns None
collect(it) ==
    LET r == next(it) IN
    IF r.item.tag # "Some" THEN <<>>
    ELSE <<[idx |-> r.item.idx, vec |-> r.item.vec]>> \o collect(r.it)

\* every item of the log came from the given end
AllFrom(end) == \A n \in 1..Len(log) : log[n].end = end

\* the iterator is exhausted
Exhausted == its # <<>> /\ len(its[1]) = 0

\* C4: permutation orientation. The item at original outer position k
\* carries the outer index p.at(k) for a CSR matrix and inverse(p).at(k)
\* (the index that p maps to k) for a CSC matrix; outer_iterator() is
\* outer_iterator_papt(identity); the views are those of position k in all
\* cases.
C4_PermutationOrientation ==
    \A n \in 1..Len(log) :
        LET k == PosOf(n)
            p == parg[1]
        IN  /\ ViewIs(log[n].vec, k)
            /\ p.identity => log[n].idx = k
            /\ (~p.identity /\ m.storage = "CSR") => log[n].idx = p.perm[k + 1]
            /\ (~p.identity /\ m.storage = "CSC") =>
                  /\ log[n].idx + 1 \in 1..Len(p.perm)
                  /\ p.perm[log[n].idx + 1] = k

\* an iterator of a CSC matrix, under a permutation that is not its own
\* inverse, has yielded an item
C4_Witness ==
    /\ log # <<>>
    /\ m.storage = "CSC"
    /\ ~parg[1].identity
    /\ parg[1].perm[PosOf(1) + 1] # log[1].idx

\* C5 (as claimed): the lengths of the views of a complete outer iteration
\* add up to nnz: indptr[0] == 0 and indptr[outer_dim] == nnz.
C5_ViewsCoverNnz ==
    Exhausted =>
        /\ Cardinality({<<n, x>> \in (1..Len(log)) \X (1..Len(m.indices)) :
                          x <= Len(log[n].vec.indices)}) = Len(m.indices)
        /\ m.indptr[1] = 0
        /\ m.indptr[Len(m.indptr)] = Len(m.indices)

\* C6: forward iteration. Calls of next() alone on outer_iterator() yield
\* the outer positions in order, the k-th item with outer index k and the
\* view of position k; exactly outer_dim items once exhausted; no call
\* aborts.
C6_ForwardIteration ==
    (its # <<>> /\ parg[1].identity /\ AllFrom("front")) =>
        /\ pc = "built"
        /\ Len(log) <= Outer
        /\ \A n \in 1..Len(log) : log[n].idx = n - 1 /\ ViewIs(log[n].vec, n - 1)
        /\ Exhausted => Len(log) = Outer

\* outer_iterator() was run forward to its end over two outer slices
C6_Witness ==
    /\ Exhausted
    /\ parg[1].identity
    /\ AllFrom("front")
    /\ Len(log) = 2
    /\ log[1].vec # log[2].vec

\* C7: reverse iteration symmetry. The items of calling next_back() until
\* exhaustion are those of calling next() until exhaustion, in the reverse
\* order; each view keeps its indices ascending.
C7_ReverseSymmetry ==
    (Exhausted /\ AllFrom("back")) =>
        /\ Items(log) = Reverse(collect(outer_iterator_papt(m, parg[1])))
        /\ \A n \in 1..Len(log) :
              \A x, y \in 1..Len(log[n].vec.indices) :
                  x < y => log[n].vec.indices[x] < log[n].vec.indices[y]

\* an iterator under a permutation was run backward to its end over two
\* outer slices, one of them with two entries
C7_Witness ==
    /\ Exhausted
    /\ AllFrom("back")
    /\ ~parg[1].identity
    /\ Len(log) = 2
    /\ Len(log[1].vec.indices) = 2
    /\ log[1].idx # log[2].idx

\* what holds of the iterator in every state, for C8
C8_Protocol ==
    its # <<>> =>
        /\ len(its[1]) = Outer - Len(log)
        /\ size_hint(its[1]) = <<Outer - Len(log), Outer - Len(log)>>
        /\ \A n \in 1..Len(log) :
              /\ PosOf(n) \in 0..(Outer - 1)
              /\ ViewIs(log[n].vec, PosOf(n))
              /\ perm_at(its[1].perm, PosOf(n)) = log[n].idx
        /\ \A x, y \in 1..Len(log) : PosOf(x) = PosOf(y) => x = y

\* what holds of every call on the iterator, for C8
C8_Step ==
    its # <<>> =>
        /\ Len(log') = Len(log) + 1 => len(its'[1]) = len(its[1]) - 1
        /\ len(its[1]) = 0 => (its' = its /\ log' = log)

\* C8: iterator protocol under any interleaving of next() and next_back().
\* len() is outer_dim minus the number of items yielded; the items of the
\* front are the outer positions 0, 1, 2, ..., those of the back
\* outer_dim-1, outer_dim-2, ..., none of them twice; every yielded item
\* takes len() down by one; once len() is 0 every call returns None and
\* leaves the iterator as it is.
C8_IteratorProtocol == []C8_Protocol /\ [][C8_Step]_vars

\* an iterator over two outer slices was exhausted by calls from both ends
C8_Witness ==
    /\ Exhausted
    /\ ~AllFrom("front")
    /\ ~AllFrom("back")
    /\ Len(log) = 2

====
